---- MODULE Spec2Model ----
\* A model of autotest (src/autotest.go): the watcher's monitoring loop, the
\* event classifier, the watch list, the run-result tracker and main's
\* start-up and shutdown, with a discrete clock.
EXTENDS Integers, Sequences, FiniteSets, TLC

\* ---------------------------------------------------------------- bounds
\* a.SettleTime, in ticks of the model clock
SettleTime == 2
\* the clock stops advancing at MaxTime
MaxTime == 4
\* notifications (events and errors) the OS watcher delivers in one session
MaxEvents == 3

\* ------------------------------------------------------- names and paths
\* A file name is a tuple of characters, a path a tuple of names below
\* $GOPATH/src.
PkgName == <<"p">>
SubName == <<"s">>
GitName == <<".", "g", "i", "t">>
GoName == <<"a", ".", "g", "o">>
SwpName == <<".", "a", ".", "s", "w", "p">>

Root == <<PkgName>>
SubPath == <<PkgName, SubName>>
SwpPath == <<PkgName, SwpName>>

\* fsnotify.Op bits that handleEvent looks at
Create == "Create"
Remove == "Remove"
Write == "Write"
Ops == {Create, Remove, Write}

\* Values for lastState
starting == 0
working == 1
failing == 2

\* the zero time.Time of a timestamp that was never set
NoTime == -1

Goroutines == {"main", "loop"}

VARIABLES
    now,          \* the clock
    proc,         \* "running", "fatal" (log.Fatal) or "exited" (main returned)
    mainpc,       \* main's position
    sigpc,        \* the signal goroutine's position
    looppc,       \* monitorChanges' position
    modified,     \* monitorChanges' local flag
    selectStart,  \* when the loop's current select, and its time.After, began
    events,       \* a.fs.Events, an unbuffered channel: the event its sender is offering
    errors,       \* a.fs.Errors, an unbuffered channel: the errors its sender is offering
    nev,          \* notifications delivered so far in this session
    offeredInRun, \* history: the notification offered last came while the loop was in RunTests
    paths,        \* a.paths
    watched,      \* the paths registered with the OS watcher a.fs
    lastState, timeSuccess, timeFailure,
    rpc,          \* per goroutine: its position inside RunTests
    rerr,         \* per goroutine: whether its handleModifications returned an error
    rmsg,         \* per goroutine: RunTests' local msg
    out,          \* the last status line RunTests logged
    handled,      \* history: the event the step just taken handled, with the OS's answers
    lastModAt,    \* history: when the loop handled the pending modification it saw last
    disk,         \* the directory tree on disk when main runs: path -> "dir" or "file"
    call,         \* history: the function the step just taken applied, its arguments and result
    streak        \* history: the kind of the outcome recorded last, and for the most
                  \* recent streak of successes and of failures when it began and
                  \* whether it had one outcome or more

procVars == <<proc, mainpc, sigpc>>
loopVars == <<looppc, modified, selectStart>>
fsVars == <<events, errors, nev, offeredInRun>>
watchVars == <<paths, watched>>
trackVars == <<lastState, timeSuccess, timeFailure>>
runVars == <<rpc, rerr, rmsg, out>>
apiVars == <<disk, call>>

vars == <<now, procVars, loopVars, fsVars, watchVars, trackVars, runVars, handled, lastModAt,
          apiVars, streak>>

\* ------------------------------------------------------------ pure parts

\* Go's truncated remainder (the sign follows the dividend)
GoRem(a, b) == IF a >= 0 THEN a % b ELSE -((-a) % b)

\* round(duration, interval), src/autotest.go:62
round(duration, interval) ==
    LET t == duration + (interval \div 2)
    IN t - GoRem(t, interval)

\* time.Second, in milliseconds
Second == 1000

\* time.Since(t) at clock value n, in milliseconds: one tick of the model
\* clock is 250 ms, so that main's SettleTime of 500 ms is 2 ticks
Since(n, t) == (n - t) * 250

\* filepath.Base
Base(path) == path[Len(path)]

\* the regular expression \..*\.swp$ : a dot, any characters but a newline, and
\* ".swp" at the end of the text
MatchSwp(s) ==
    /\ Len(s) >= 5
    /\ SubSeq(s, Len(s) - 3, Len(s)) = <<".", "s", "w", "p">>
    /\ \E i \in 1..(Len(s) - 4) :
         /\ s[i] = "."
         /\ \A k \in (i + 1)..(Len(s) - 4) : s[k] /= "\n"

\* newWatcher's defaults
IgnoreDirs == {GitName}
IgnoreFiles == <<"swp">>

MatchString(re, s) == re = "swp" /\ MatchSwp(s)

\* the loop of handleEvent over a.IgnoreFiles
SkipFile(base) == \E i \in 1..Len(IgnoreFiles) : MatchString(IgnoreFiles[i], base)

\* the index of the first entry of list equal to path, 0 when there is none
FirstIndex(list, path) ==
    IF \E i \in 1..Len(list) : list[i] = path
    THEN CHOOSE i \in 1..Len(list) :
           list[i] = path /\ \A j \in 1..(i - 1) : list[j] /= path
    ELSE 0

\* the slice surgery of Remove: the first entry equal to path is deleted
RemovePath(list, path) ==
    LET i == FirstIndex(list, path)
    IN IF i = 0 THEN list
       ELSE SubSeq(list, 1, i - 1) \o SubSeq(list, i + 1, Len(list))

\* Add without its append
AddPath_Forget(list, path) == list

\* a.Add(path) when a.fs.Add succeeds
AddPath(list, path) == Append(list, path)

\* what a.fs.Remove(path) answers: "nonexistent" for a path that is not
\* registered, otherwise nil or a failure of the system call
FsRemoveAnswers(w, path) ==
    IF path \in w THEN {"nil", "other"} ELSE {"nonexistent"}

\* handleEvent without the check of IgnoreFiles: every write counts
handleEvent_NoSkip(ev, st, addOK, rm, list, w) ==
    LET hasC == Create \in ev.op
        hasR == Remove \in ev.op
        hasW == Write \in ev.op
        gone == hasC /\ st = "gone"
        statErr == hasC /\ st = "err"
        isDir == hasC /\ st = "dir"
        fatal == isDir /\ ~addOK
        list1 == IF isDir /\ addOK THEN AddPath(list, ev.name) ELSE list
        w1 == IF isDir /\ addOK THEN w \cup {ev.name} ELSE w
        mod1 == hasC /\ st = "file"
        list2 == IF hasR THEN RemovePath(list1, ev.name) ELSE list1
        w2 == IF hasR /\ rm = "nil" THEN w1 \ {ev.name} ELSE w1
        rmErr == hasR /\ rm = "other"
        mod2 == mod1 \/ hasR
        mod3 == mod2 \/ hasW
    IN IF gone THEN [mod |-> FALSE, err |-> FALSE, paths |-> list, watched |-> w, fatal |-> FALSE]
       ELSE IF statErr THEN [mod |-> FALSE, err |-> TRUE, paths |-> list, watched |-> w, fatal |-> FALSE]
       ELSE IF fatal THEN [mod |-> FALSE, err |-> TRUE, paths |-> list, watched |-> w, fatal |-> TRUE]
       ELSE IF rmErr THEN [mod |-> FALSE, err |-> TRUE, paths |-> list2, watched |-> w2, fatal |-> FALSE]
       ELSE [mod |-> mod3, err |-> FALSE, paths |-> list2, watched |-> w2, fatal |-> FALSE]

\* handleEvent(event): st is what os.Stat answers, addOK whether a.fs.Add
\* succeeds, rm what a.fs.Remove answers. Gives the returned flag and error,
\* the watch list and the registrations afterwards, and whether Add ended the
\* process with log.Fatal.
handleEvent(ev, st, addOK, rm, list, w) ==
    LET hasC == Create \in ev.op
        hasR == Remove \in ev.op
        hasW == Write \in ev.op
        gone == hasC /\ st = "gone"
        statErr == hasC /\ st = "err"
        isDir == hasC /\ st = "dir"
        fatal == isDir /\ ~addOK
        list1 == IF isDir /\ addOK THEN AddPath(list, ev.name) ELSE list
        w1 == IF isDir /\ addOK THEN w \cup {ev.name} ELSE w
        mod1 == hasC /\ st = "file"
        list2 == IF hasR THEN RemovePath(list1, ev.name) ELSE list1
        w2 == IF hasR /\ rm = "nil" THEN w1 \ {ev.name} ELSE w1
        rmErr == hasR /\ rm = "other"
        mod2 == mod1 \/ hasR
        mod3 == mod2 \/ (hasW /\ ~SkipFile(Base(ev.name)))
    IN IF gone THEN [mod |-> FALSE, err |-> FALSE, paths |-> list, watched |-> w, fatal |-> FALSE]
       ELSE IF statErr THEN [mod |-> FALSE, err |-> TRUE, paths |-> list, watched |-> w, fatal |-> FALSE]
       ELSE IF fatal THEN [mod |-> FALSE, err |-> TRUE, paths |-> list, watched |-> w, fatal |-> TRUE]
       ELSE IF rmErr THEN [mod |-> FALSE, err |-> TRUE, paths |-> list2, watched |-> w2, fatal |-> FALSE]
       ELSE [mod |-> mod3, err |-> FALSE, paths |-> list2, watched |-> w2, fatal |-> FALSE]

\* ------------------------------------------------ the tree main starts on
\* a package with a source file, a repository directory and a subdirectory
StartDisk ==
    [q \in {Root, <<PkgName, GitName>>, <<PkgName, GitName, SubName>>,
            <<PkgName, GoName>>, SubPath} |->
       IF q = <<PkgName, GoName>> THEN "file" ELSE "dir"]

\* the paths on disk, and what info.IsDir() answers for them
DiskPaths == DOMAIN disk
IsDirOnDisk(p) == disk[p] = "dir"

\* character codes, for the lexical order of ioutil.ReadDir / readDirNames
Code(c) ==
    CASE c = "." -> 46 [] c = "a" -> 97 [] c = "g" -> 103 [] c = "i" -> 105
      [] c = "o" -> 111 [] c = "p" -> 112 [] c = "s" -> 115 [] c = "t" -> 116
      [] c = "w" -> 119 [] OTHER -> 0

RECURSIVE Less(_, _)
Less(a, b) ==
    IF a = <<>> THEN b /= <<>>
    ELSE IF b = <<>> THEN FALSE
    ELSE IF Code(Head(a)) /= Code(Head(b)) THEN Code(Head(a)) < Code(Head(b))
    ELSE Less(Tail(a), Tail(b))

\* the entries of directory p
Entries(p) == {q \in DiskPaths : Len(q) = Len(p) + 1 /\ SubSeq(q, 1, Len(p)) = p}

RECURSIVE Sorted(_)
Sorted(S) ==
    IF S = {} THEN <<>>
    ELSE LET m == CHOOSE x \in S : \A y \in S \ {x} : Less(Base(x), Base(y))
         IN <<m>> \o Sorted(S \ {m})

\* the function AddRecursive hands to filepath.Walk, when a.fs.Add succeeds:
\* the error it returns and the paths it adds
WalkFn(p) ==
    IF Base(p) \in IgnoreDirs THEN [err |-> "SkipDir", adds |-> <<>>]
    ELSE IF IsDirOnDisk(p) THEN [err |-> "nil", adds |-> <<p>>]
    ELSE [err |-> "nil", adds |-> <<>>]

\* filepath.walk and its loop over the names of a directory
RECURSIVE walk(_)
RECURSIVE walkNames(_, _)
walk(p) ==
    LET r == WalkFn(p)
    IN IF r.err /= "nil"
       THEN IF IsDirOnDisk(p) /\ r.err = "SkipDir"
            THEN [err |-> "nil", adds |-> r.adds]
            ELSE r
       ELSE IF ~IsDirOnDisk(p) THEN r
       ELSE LET s == walkNames(Sorted(Entries(p)), r.adds)
            IN s
walkNames(names, adds) ==
    IF names = <<>> THEN [err |-> "nil", adds |-> adds]
    ELSE LET r == walk(Head(names))
         IN IF r.err /= "nil" /\ (~IsDirOnDisk(Head(names)) \/ r.err /= "SkipDir")
            THEN [err |-> r.err, adds |-> adds \o r.adds]
            ELSE walkNames(Tail(names), adds \o r.adds)

\* a.AddRecursive(path) when every stat and every a.fs.Add succeeds
AddRecursive(p) == walk(p).adds

Range(s) == {s[i] : i \in 1..Len(s)}

\* ---------------------------------------------------------------- state
NoEvent == [kind |-> "none"]
NoCall == [op |-> "none"]
NoStreak == [kind |-> "none", success |-> NoTime, failure |-> NoTime,
             n |-> [success |-> 0, failure |-> 0]]

\* the notifications the OS watcher can deliver: any kinds on either name
Events == [name : {SubPath, SwpPath}, op : (SUBSET Ops) \ {{}}]

\* the notifications delivered in the specification of the whole program: a
\* write that counts, a write to an ignored file, and a creation
LoopEvents ==
    {[name |-> SubPath, op |-> {Write}], [name |-> SwpPath, op |-> {Write}],
     [name |-> SubPath, op |-> {Create}]}

Init ==
    /\ now = 0
    /\ proc = "running"
    /\ mainpc = "setup"
    /\ sigpc = "wait"
    /\ looppc = "notStarted"
    /\ modified = FALSE
    /\ selectStart = 0
    /\ events = <<>>
    /\ errors = 0
    /\ nev = 0
    /\ offeredInRun = FALSE
    /\ paths = <<>>
    /\ watched = {}
    /\ lastState = starting
    /\ timeSuccess = NoTime
    /\ timeFailure = NoTime
    /\ rpc = [g \in Goroutines |-> "idle"]
    /\ rerr = [g \in Goroutines |-> FALSE]
    /\ rmsg = [g \in Goroutines |-> <<>>]
    /\ out = <<>>
    /\ handled = NoEvent
    /\ lastModAt = NoTime
    /\ disk = StartDisk
    /\ call = NoCall
    /\ streak = NoStreak

Alive == proc = "running"

\* ------------------------------------------------------------------ main
\* main's loop over os.Args: findPackage and AddRecursive on the one path given
MainSetup ==
    /\ Alive /\ mainpc = "setup"
    /\ paths' = paths \o AddRecursive(Root)
    /\ watched' = watched \cup Range(AddRecursive(Root))
    /\ mainpc' = "start"
    /\ handled' = NoEvent
    /\ UNCHANGED <<now, apiVars, streak, proc, sigpc, loopVars, fsVars, trackVars, runVars, lastModAt>>

\* the log.Fatal calls of start-up: no path found, a walk error, a failed a.fs.Add
MainSetupFatal ==
    /\ Alive /\ mainpc = "setup"
    /\ proc' = "fatal"
    /\ handled' = NoEvent
    /\ UNCHANGED <<now, apiVars, streak, mainpc, sigpc, loopVars, fsVars, watchVars, trackVars, runVars,
                   lastModAt>>

\* w.Start() and the call of w.RunTests() that follows it
MainStart ==
    /\ Alive /\ mainpc = "start"
    /\ looppc' = "select"
    /\ selectStart' = now
    /\ mainpc' = "runTests"
    /\ rpc' = [rpc EXCEPT !["main"] = "cmd"]
    /\ handled' = NoEvent
    /\ UNCHANGED <<now, apiVars, streak, proc, sigpc, modified, fsVars, watchVars, trackVars,
                   rerr, rmsg, out, lastModAt>>

\* w.Close() and the end of main
MainClose ==
    /\ Alive /\ mainpc = "close"
    /\ mainpc' = "exit"
    /\ proc' = "exited"
    /\ handled' = NoEvent
    /\ UNCHANGED <<now, apiVars, streak, sigpc, loopVars, fsVars, watchVars, trackVars, runVars, lastModAt>>

\* the signal goroutine: a signal arrives and it calls w.Stop(), which blocks
\* on a.done until the loop receives
Signal ==
    /\ Alive /\ sigpc = "wait"
    /\ sigpc' = "stop"
    /\ handled' = NoEvent
    /\ UNCHANGED <<now, apiVars, streak, proc, mainpc, loopVars, fsVars, watchVars, trackVars, runVars,
                   lastModAt>>

\* ------------------------------------------------------------- RunTests
\* handleModifications returns: 'go test' ended, with an error or without
CmdReturn(g) ==
    /\ Alive /\ rpc[g] = "cmd"
    /\ \E e \in BOOLEAN : rerr' = [rerr EXCEPT ![g] = e]
    /\ rpc' = [rpc EXCEPT ![g] = "stamp"]
    /\ handled' = NoEvent
    /\ UNCHANGED <<now, apiVars, streak, procVars, loopVars, fsVars, watchVars, trackVars, rmsg, out,
                   lastModAt>>

\* the history after an outcome of the given kind is recorded at time t
Outcome(h, kind, t) ==
    IF h.kind = kind THEN [h EXCEPT !.n[kind] = 2]
    ELSE [h EXCEPT !.kind = kind, ![kind] = t, !.n[kind] = 1]

\* RunTests taking the time of every outcome, not only of a transition
RunStamp_Always(g) ==
    /\ Alive /\ rpc[g] = "stamp"
    /\ IF rerr[g]
       THEN /\ timeFailure' = now
            /\ UNCHANGED timeSuccess
       ELSE /\ timeSuccess' = now
            /\ UNCHANGED timeFailure
    /\ streak' = Outcome(streak, IF rerr[g] THEN "failure" ELSE "success", now)
    /\ rpc' = [rpc EXCEPT ![g] = "msg"]
    /\ handled' = NoEvent
    /\ UNCHANGED <<now, apiVars, procVars, loopVars, fsVars, watchVars, lastState, rerr, rmsg, out,
                   lastModAt>>

\* the first if of either branch: the timestamp of a transition
RunStamp(g) ==
    /\ Alive /\ rpc[g] = "stamp"
    /\ IF rerr[g]
       THEN /\ timeFailure' = IF lastState /= failing THEN now ELSE timeFailure
            /\ UNCHANGED timeSuccess
       ELSE /\ timeSuccess' = IF lastState /= working THEN now ELSE timeSuccess
            /\ UNCHANGED timeFailure
    /\ streak' = Outcome(streak, IF rerr[g] THEN "failure" ELSE "success", now)
    /\ rpc' = [rpc EXCEPT ![g] = "msg"]
    /\ handled' = NoEvent
    /\ UNCHANGED <<now, apiVars, procVars, loopVars, fsVars, watchVars, lastState, rerr, rmsg, out,
                   lastModAt>>

\* RunTests announcing every success that does not follow a success
RunMsg_FromStarting(g) ==
    /\ Alive /\ rpc[g] = "msg"
    /\ rmsg' = [rmsg EXCEPT ![g] =
           IF rerr[g]
           THEN IF lastState = working
                THEN <<"error", round(Since(now, timeSuccess), Second)>>
                ELSE <<"error">>
           ELSE IF lastState /= working
                THEN <<"success after", round(Since(now, timeFailure), Second)>>
                ELSE <<>>]
    /\ rpc' = [rpc EXCEPT ![g] = "set"]
    /\ handled' = NoEvent
    /\ UNCHANGED <<now, apiVars, streak, procVars, loopVars, fsVars, watchVars, trackVars, rerr, out,
                   lastModAt>>

\* RunTests giving the elapsed time with every failure that does not follow a failure
RunMsg_SuffixFromStarting(g) ==
    /\ Alive /\ rpc[g] = "msg"
    /\ rmsg' = [rmsg EXCEPT ![g] =
           IF rerr[g]
           THEN IF lastState /= failing
                THEN <<"error", round(Since(now, timeSuccess), Second)>>
                ELSE <<"error">>
           ELSE IF lastState = failing
                THEN <<"success after", round(Since(now, timeFailure), Second)>>
                ELSE <<>>]
    /\ rpc' = [rpc EXCEPT ![g] = "set"]
    /\ handled' = NoEvent
    /\ UNCHANGED <<now, apiVars, streak, procVars, loopVars, fsVars, watchVars, trackVars, rerr, out,
                   lastModAt>>

\* the second if of either branch: the elapsed time in the message
RunMsg(g) ==
    /\ Alive /\ rpc[g] = "msg"
    /\ rmsg' = [rmsg EXCEPT ![g] =
           IF rerr[g]
           THEN IF lastState = working
                THEN <<"error", round(Since(now, timeSuccess), Second)>>
                ELSE <<"error">>
           ELSE IF lastState = failing
                THEN <<"success after", round(Since(now, timeFailure), Second)>>
                ELSE <<>>]
    /\ rpc' = [rpc EXCEPT ![g] = "set"]
    /\ handled' = NoEvent
    /\ UNCHANGED <<now, apiVars, streak, procVars, loopVars, fsVars, watchVars, trackVars, rerr, out,
                   lastModAt>>

\* the loop without its modified = false after RunTests
RunSet_KeepModified(g) ==
    /\ Alive /\ rpc[g] = "set"
    /\ lastState' = IF rerr[g] THEN failing ELSE working
    /\ out' = IF rmsg[g] /= <<>> THEN rmsg[g] ELSE out
    /\ rpc' = [rpc EXCEPT ![g] = "idle"]
    /\ rmsg' = [rmsg EXCEPT ![g] = <<>>]
    /\ rerr' = [rerr EXCEPT ![g] = FALSE]
    /\ IF g = "main"
       THEN /\ mainpc' = "waitFinished"
            /\ UNCHANGED <<loopVars, lastModAt>>
       ELSE /\ modified' = modified
            /\ looppc' = "select"
            /\ selectStart' = now
            /\ lastModAt' = NoTime
            /\ UNCHANGED mainpc
    /\ handled' = NoEvent
    /\ UNCHANGED <<now, apiVars, streak, proc, sigpc, fsVars, watchVars, timeSuccess, timeFailure>>

\* the assignment to lastState, the log line, and the return to the caller:
\* main goes on to wait on a.Finished, the loop clears modified and selects again
RunSet(g) ==
    /\ Alive /\ rpc[g] = "set"
    /\ lastState' = IF rerr[g] THEN failing ELSE working
    /\ out' = IF rmsg[g] /= <<>> THEN rmsg[g] ELSE out
    /\ rpc' = [rpc EXCEPT ![g] = "idle"]
    /\ rmsg' = [rmsg EXCEPT ![g] = <<>>]
    /\ rerr' = [rerr EXCEPT ![g] = FALSE]
    /\ IF g = "main"
       THEN /\ mainpc' = "waitFinished"
            /\ UNCHANGED <<loopVars, lastModAt>>
       ELSE /\ modified' = FALSE
            /\ looppc' = "select"
            /\ selectStart' = now
            /\ lastModAt' = NoTime
            /\ UNCHANGED mainpc
    /\ handled' = NoEvent
    /\ UNCHANGED <<now, apiVars, streak, proc, sigpc, fsVars, watchVars, timeSuccess, timeFailure>>

\* ------------------------------------------------------- monitorChanges
AtSelect == Alive /\ looppc = "select"

TimerExpired == now >= selectStart + SettleTime

\* case <-a.done
LoopStop ==
    /\ AtSelect /\ sigpc = "stop"
    /\ sigpc' = "returned"
    /\ looppc' = "sendFinished"
    /\ handled' = NoEvent
    /\ UNCHANGED <<now, apiVars, streak, proc, mainpc, modified, selectStart, fsVars, watchVars,
                   trackVars, runVars, lastModAt>>

\* the stop branch leaving the select but not the for loop
LoopFinished_Break ==
    /\ Alive /\ looppc = "sendFinished" /\ mainpc = "waitFinished"
    /\ looppc' = "select"
    /\ mainpc' = "close"
    /\ handled' = NoEvent
    /\ UNCHANGED <<now, apiVars, streak, proc, sigpc, modified, selectStart, fsVars, watchVars,
                   trackVars, runVars, lastModAt>>

\* a.Finished <- true, received by main's <-w.Finished; the loop returns
LoopFinished ==
    /\ Alive /\ looppc = "sendFinished" /\ mainpc = "waitFinished"
    /\ looppc' = "returned"
    /\ mainpc' = "close"
    /\ handled' = NoEvent
    /\ UNCHANGED <<now, apiVars, streak, proc, sigpc, modified, selectStart, fsVars, watchVars,
                   trackVars, runVars, lastModAt>>

\* case err := <-a.fs.Errors
LoopError ==
    /\ AtSelect /\ errors > 0
    /\ errors' = errors - 1
    /\ selectStart' = now
    /\ handled' = NoEvent
    /\ UNCHANGED <<now, apiVars, streak, procVars, looppc, modified, events, nev, offeredInRun, watchVars,
                   trackVars, runVars, lastModAt>>

\* what os.Stat, a.fs.Add and a.fs.Remove can answer while ev is handled
Answers(ev, w) ==
    {a \in [st : {"none", "dir", "file", "gone", "err"}, addOK : BOOLEAN,
            rm : {"none", "nil", "other", "nonexistent"}] :
       /\ (a.st = "none") = (Create \notin ev.op)
       /\ (~a.addOK) => (a.st = "dir")
       /\ IF Remove \in ev.op /\ a.st \in {"none", "dir", "file"} /\ a.addOK
          THEN a.rm \in FsRemoveAnswers(IF a.st = "dir" THEN w \cup {ev.name} ELSE w, ev.name)
          ELSE a.rm = "none"}

\* case event := <-a.fs.Events
LoopEvent ==
    /\ AtSelect /\ events /= <<>>
    /\ \E a \in Answers(Head(events), watched) :
         LET ev == Head(events)
             r == handleEvent(ev, a.st, a.addOK, a.rm, paths, watched)
         IN /\ events' = Tail(events)
            /\ handled' = [kind |-> "event", ev |-> ev, st |-> a.st,
                           addOK |-> a.addOK, rm |-> a.rm, inRun |-> offeredInRun]
            /\ paths' = r.paths
            /\ watched' = r.watched
            /\ proc' = IF r.fatal THEN "fatal" ELSE proc
            /\ modified' = IF ~r.err /\ r.mod THEN TRUE ELSE modified
            /\ lastModAt' = IF ~r.err /\ r.mod THEN now ELSE lastModAt
            /\ selectStart' = now
    /\ UNCHANGED <<now, apiVars, streak, mainpc, sigpc, looppc, errors, nev, offeredInRun, trackVars,
                   runVars>>

\* the timer branch without its if modified
LoopTimer_Unguarded ==
    /\ AtSelect /\ TimerExpired
    /\ handled' = NoEvent
    /\ IF TRUE
       THEN /\ looppc' = "running"
            /\ rpc' = [rpc EXCEPT !["loop"] = "cmd"]
            /\ UNCHANGED selectStart
       ELSE /\ selectStart' = now
            /\ UNCHANGED <<looppc, rpc>>
    /\ UNCHANGED <<now, apiVars, streak, procVars, modified, fsVars, watchVars, trackVars, rerr, rmsg, out,
                   lastModAt>>

\* case <-time.After(a.SettleTime)
LoopTimer ==
    /\ AtSelect /\ TimerExpired
    /\ handled' = NoEvent
    /\ IF modified
       THEN /\ looppc' = "running"
            /\ rpc' = [rpc EXCEPT !["loop"] = "cmd"]
            /\ UNCHANGED selectStart
       ELSE /\ selectStart' = now
            /\ UNCHANGED <<looppc, rpc>>
    /\ UNCHANGED <<now, apiVars, streak, procVars, modified, fsVars, watchVars, trackVars, rerr, rmsg, out,
                   lastModAt>>

\* ------------------------------------------------------- the environment
\* the watcher's reader goroutine offers one notification at a time
SenderFree == events = <<>> /\ errors = 0

\* the OS watcher delivers a notification for a watched tree
FsEvent(ev) ==
    /\ Alive /\ watched /= {} /\ nev < MaxEvents
    /\ SenderFree
    /\ events' = Append(events, ev)
    /\ nev' = nev + 1
    /\ offeredInRun' = (looppc = "running")
    /\ handled' = NoEvent
    /\ UNCHANGED <<now, apiVars, streak, procVars, loopVars, errors, watchVars, trackVars, runVars,
                   lastModAt>>

\* the OS watcher reports an error
FsError ==
    /\ Alive /\ watched /= {} /\ nev < MaxEvents
    /\ SenderFree
    /\ errors' = errors + 1
    /\ nev' = nev + 1
    /\ offeredInRun' = (looppc = "running")
    /\ handled' = NoEvent
    /\ UNCHANGED <<now, apiVars, streak, procVars, loopVars, events, watchVars, trackVars, runVars,
                   lastModAt>>

\* the loop takes a ready branch of its select at once: time does not pass
\* while a notification, a stop request or the expired timer is waiting for it
LoopReady ==
    AtSelect /\ (events /= <<>> \/ errors > 0 \/ sigpc = "stop" \/ TimerExpired)

Tick ==
    /\ Alive /\ now < MaxTime
    /\ ~LoopReady
    /\ now' = now + 1
    /\ handled' = NoEvent
    /\ UNCHANGED <<procVars, loopVars, fsVars, watchVars, trackVars, runVars, lastModAt,
                   apiVars, streak>>

Next ==
    \/ MainSetup
    \/ MainSetupFatal
    \/ MainStart
    \/ MainClose
    \/ Signal
    \/ \E g \in Goroutines : CmdReturn(g)
    \/ \E g \in Goroutines : RunStamp(g)
    \/ \E g \in Goroutines : RunMsg(g)
    \/ \E g \in Goroutines : RunSet(g)
    \/ LoopStop
    \/ LoopFinished
    \/ LoopError
    \/ LoopEvent
    \/ LoopTimer
    \/ \E ev \in LoopEvents : FsEvent(ev)
    \/ FsError
    \/ Tick

\* the whole program
Spec == Init /\ [][Next]_vars

\* The session once start-up is over: main has made its first run at time 0
\* and waits on a.Finished, no signal arrives, and the OS watcher delivers
\* notifications of every kind.
InitWatch ==
    /\ now = 0
    /\ proc = "running"
    /\ mainpc = "waitFinished"
    /\ sigpc = "wait"
    /\ looppc = "select"
    /\ modified = FALSE
    /\ selectStart = 0
    /\ events = <<>>
    /\ errors = 0
    /\ nev = 0
    /\ offeredInRun = FALSE
    /\ disk = StartDisk
    /\ call = NoCall
    /\ paths = AddRecursive(Root)
    /\ watched = Range(AddRecursive(Root))
    /\ \/ /\ lastState = working /\ timeSuccess = 0 /\ timeFailure = NoTime
          /\ streak = Outcome(NoStreak, "success", 0)
       \/ /\ lastState = failing /\ timeSuccess = NoTime /\ timeFailure = 0
          /\ streak = Outcome(NoStreak, "failure", 0)
    /\ rpc = [g \in Goroutines |-> "idle"]
    /\ rerr = [g \in Goroutines |-> FALSE]
    /\ rmsg = [g \in Goroutines |-> <<>>]
    /\ out = IF lastState = failing THEN <<"error">> ELSE <<>>
    /\ handled = NoEvent
    /\ lastModAt = NoTime

NextWatch ==
    \/ CmdReturn("loop")
    \/ RunStamp("loop")
    \/ RunMsg("loop")
    \/ RunSet("loop")
    \/ LoopError
    \/ LoopEvent
    \/ LoopTimer
    \/ \E ev \in Events : FsEvent(ev)
    \/ FsError
    \/ Tick

SpecWatch == InitWatch /\ [][NextWatch]_vars

\* The trees main can start on: below the root each of three names is absent,
\* a file, an empty directory, or a directory holding a file or a directory.
RootNames == {GitName, GoName, SubName}
EntryKinds == {"absent", "file", "dir", "dirWithFile", "dirWithDir"}
TreeOf(c) ==
    LET top == {<<PkgName, n>> : n \in {m \in RootNames : c[m] /= "absent"}}
        below == {<<PkgName, n, SubName>> :
                    n \in {m \in RootNames : c[m] \in {"dirWithFile", "dirWithDir"}}}
    IN [q \in {Root} \cup top \cup below |->
          IF q = Root THEN "dir"
          ELSE IF Len(q) = 2 THEN (IF c[q[2]] = "file" THEN "file" ELSE "dir")
          ELSE IF c[q[2]] = "dirWithDir" THEN "dir" ELSE "file"]
Trees == {TreeOf(c) : c \in [RootNames -> EntryKinds]}

\* main's start-up on any of these trees
InitWalk ==
    /\ now = 0
    /\ proc = "running"
    /\ mainpc = "setup"
    /\ sigpc = "wait"
    /\ looppc = "notStarted"
    /\ modified = FALSE
    /\ selectStart = 0
    /\ events = <<>>
    /\ errors = 0
    /\ nev = 0
    /\ offeredInRun = FALSE
    /\ paths = <<>>
    /\ watched = {}
    /\ lastState = starting
    /\ timeSuccess = NoTime
    /\ timeFailure = NoTime
    /\ rpc = [g \in Goroutines |-> "idle"]
    /\ rerr = [g \in Goroutines |-> FALSE]
    /\ rmsg = [g \in Goroutines |-> <<>>]
    /\ out = <<>>
    /\ handled = NoEvent
    /\ lastModAt = NoTime
    /\ disk \in Trees
    /\ call = NoCall
    /\ streak = NoStreak

NextWalk ==
    \/ MainSetup
    \/ MainSetupFatal

SpecWalk == InitWalk /\ [][NextWalk]_vars

\* The run-result tracker over a longer session: main has set up its watches,
\* makes its first run, and modifications arrive once that run is recorded, so
\* that the outcomes are recorded one after the other.
MaxTrackTime == 8

InitTrack ==
    /\ now = 0
    /\ proc = "running"
    /\ mainpc = "start"
    /\ sigpc = "wait"
    /\ looppc = "notStarted"
    /\ modified = FALSE
    /\ selectStart = 0
    /\ events = <<>>
    /\ errors = 0
    /\ nev = 0
    /\ offeredInRun = FALSE
    /\ disk = StartDisk
    /\ call = NoCall
    /\ paths = AddRecursive(Root)
    /\ watched = Range(AddRecursive(Root))
    /\ lastState = starting
    /\ timeSuccess = NoTime
    /\ timeFailure = NoTime
    /\ streak = NoStreak
    /\ rpc = [g \in Goroutines |-> "idle"]
    /\ rerr = [g \in Goroutines |-> FALSE]
    /\ rmsg = [g \in Goroutines |-> <<>>]
    /\ out = <<>>
    /\ handled = NoEvent
    /\ lastModAt = NoTime

\* a source file is written after main's first run
TrackEvent ==
    /\ mainpc = "waitFinished"
    /\ FsEvent([name |-> SubPath, op |-> {Write}])

\* the clock of the longer session
TrackTick ==
    /\ Alive /\ now < MaxTrackTime
    /\ ~LoopReady
    /\ now' = now + 1
    /\ handled' = NoEvent
    /\ UNCHANGED <<procVars, loopVars, fsVars, watchVars, trackVars, runVars, lastModAt,
                   apiVars, streak>>

NextTrack ==
    \/ MainStart
    \/ \E g \in Goroutines : CmdReturn(g)
    \/ \E g \in Goroutines : RunStamp(g)
    \/ \E g \in Goroutines : RunMsg(g)
    \/ \E g \in Goroutines : RunSet(g)
    \/ LoopEvent
    \/ LoopTimer
    \/ TrackEvent
    \/ TrackTick

SpecTrack == InitTrack /\ [][NextTrack]_vars

\* round applied to a duration in milliseconds, as RunTests applies it to the
\* time since a timestamp
MaxDuration == 5000
Durations == ((-MaxDuration)..MaxDuration) \cup {125 * Second, -(125 * Second)}

CallRound(d) ==
    /\ Alive /\ call = NoCall
    /\ call' = [op |-> "round", duration |-> d, interval |-> Second,
                ret |-> round(d, Second)]
    /\ UNCHANGED <<now, procVars, loopVars, fsVars, watchVars, trackVars, runVars, handled,
                   lastModAt, disk, streak>>

NextRound == \E d \in Durations : CallRound(d)

SpecRound == Init /\ [][NextRound]_vars

\* The whole program under the scheduling the Go runtime gives it: a goroutine
\* that can take a step takes it, a command that was started returns, and a
\* select whose stop branch is ready again and again takes it in the end.
Fairness ==
    /\ WF_vars(MainStart)
    /\ WF_vars(MainClose)
    /\ \A g \in Goroutines :
         /\ WF_vars(CmdReturn(g))
         /\ WF_vars(RunStamp(g))
         /\ WF_vars(RunMsg(g))
         /\ WF_vars(RunSet(g))
    /\ SF_vars(LoopStop)
    /\ WF_vars(LoopFinished)

FairSpec == Spec /\ Fairness

\* ---------------------------------------------------------------- claims
\* the step in which the loop calls RunTests
Trigger == looppc = "select" /\ looppc' = "running"

WriteSub == [name |-> SubPath, op |-> {Write}]
WriteSwp == [name |-> SwpPath, op |-> {Write}]

\* the event just handled, classified from the event and the OS's answers
HandledEvent(h) == h.kind = "event"
HandlingFailed(h) ==
    HandledEvent(h) /\ ((Create \in h.ev.op /\ h.st = "err") \/ ~h.addOK \/ h.rm = "other")
CreatedGone(h) == HandledEvent(h) /\ Create \in h.ev.op /\ h.st = "gone"
CreatedDir(h) == HandledEvent(h) /\ h.ev.op = {Create} /\ h.st = "dir"
CreatedFile(h) == HandledEvent(h) /\ h.ev.op = {Create} /\ h.st = "file"
IgnoredWrite(h) == HandledEvent(h) /\ h.ev.op = {Write} /\ h.ev.name = SwpPath
Noise(h) == IgnoredWrite(h) \/ CreatedDir(h) \/ CreatedGone(h) \/ HandlingFailed(h)
Qualifying(h) ==
    /\ HandledEvent(h) /\ ~HandlingFailed(h) /\ ~CreatedGone(h)
    /\ \/ Create \in h.ev.op /\ h.st = "file"
       \/ Remove \in h.ev.op
       \/ Write \in h.ev.op /\ h.ev.name = SubPath

\* C1: for every burst of qualifying modifications the loop calls RunTests
\* exactly SettleTime after the last modification of the burst, never earlier
\* and never later.
C1_TriggerSettleTimeAfterBurst ==
    [][Trigger => (lastModAt /= NoTime /\ now = lastModAt + SettleTime)]_vars

\* C2: the loop calls RunTests only on a timer expiry while it is armed, once
\* per expiry, after at least one qualifying modification since its previous
\* call, and is idle when the call has returned.
C2_TriggerOnlyWhenArmed ==
    [][/\ (looppc' = "running" /\ looppc /= "running") =>
            /\ looppc = "select" /\ TimerExpired /\ modified
            /\ lastModAt /= NoTime
            /\ rpc["loop"] = "idle" /\ rpc'["loop"] = "cmd"
       /\ (rpc'["loop"] = "cmd" /\ rpc["loop"] /= "cmd") => Trigger
       /\ (looppc = "running" /\ looppc' /= "running") =>
            (looppc' = "select" /\ ~modified' /\ rpc'["loop"] = "idle")
       /\ (AtSelect /\ TimerExpired /\ ~modified) => looppc' /= "running"]_vars

\* a second call by the loop: an earlier run has been recorded and the loop is
\* in RunTests again
C2_Witness ==
    /\ looppc = "running" /\ rpc["loop"] = "cmd" /\ modified
    /\ rpc["main"] = "idle" /\ now = lastModAt + SettleTime /\ now = MaxTime

\* C3: while the loop is armed and waiting, no more than SettleTime has passed
\* since the last qualifying modification: events that are no modification do
\* not postpone the trigger.
C3_NoiseNeverPostpones ==
    (AtSelect /\ modified) => now <= lastModAt + SettleTime

\* C4: handling an ignored write, a created directory, a created path that is
\* gone, an event whose handling fails, or a watcher error leaves modified as
\* it was; the loop becomes armed only by a qualifying modification.
C4_NoiseNeverArms ==
    [][/\ Noise(handled') => modified' = modified
       /\ errors' < errors => modified' = modified
       /\ (~modified /\ modified') => Qualifying(handled')]_vars

\* an ignored write was handled by an idle loop, which is still idle
C4_Witness ==
    /\ IgnoredWrite(handled) /\ ~modified /\ looppc = "select" /\ proc = "running"

\* C5: no two executions of RunTests are in progress at the same time.
C5_NoConcurrentRuns ==
    ~(rpc["main"] /= "idle" /\ rpc["loop"] /= "idle")

Stopped == looppc \in {"sendFinished", "returned"}
C7_NothingAfterStop ==
    [][Stopped =>
         /\ Stopped' /\ (looppc = "returned" => looppc' = "returned")
         /\ ~HandledEvent(handled')
         /\ Len(events') >= Len(events) /\ errors' >= errors
         /\ UNCHANGED <<modified, selectStart, paths, watched>>
         /\ rpc'["loop"] = "idle"]_vars

\* the loop has stopped and returned with a modification pending
C7_Witness ==
    looppc = "returned" /\ modified /\ sigpc = "returned" /\ mainpc = "close"

\* C8: a stop requested of a started session leads to the loop receiving it,
\* Stop returning, main being released from a.Finished and the loop returning.
C8_StopCompletes ==
    (sigpc = "stop" /\ looppc /= "notStarted")
      ~> (looppc = "returned" /\ sigpc = "returned" /\ mainpc \in {"close", "exit"})

\* C9: after a created event on a directory the path is in the watch list and
\* modified is as before; after a created event on a file the watch list is as
\* before and modified is set.
C9_CreatedEvent ==
    [][/\ (CreatedDir(handled') /\ proc' = "running") =>
            (handled'.ev.name \in Range(paths') /\ modified' = modified)
       /\ CreatedFile(handled') => (paths' = paths /\ modified')]_vars

\* a directory that was not watched was created and is in the watch list, the
\* loop still idle
C9_Witness ==
    /\ CreatedDir(handled) /\ handled.ev.name = SwpPath
    /\ SwpPath \in Range(paths) /\ SwpPath \in watched /\ ~modified /\ proc = "running"

\* C10: after any event that carries the removed kind the loop is armed and
\* the path is nowhere in the watch list, which is unchanged if the path was
\* not in it.
C10_RemovedEvent ==
    [][(HandledEvent(handled') /\ Remove \in handled'.ev.op) =>
         /\ modified'
         /\ handled'.ev.name \notin Range(paths')
         /\ (handled'.ev.name \notin Range(paths) => paths' = paths)]_vars

\* C11: no path occurs twice in the watch list.
C11_NoDuplicates ==
    \A i, j \in 1..Len(paths) : paths[i] = paths[j] => i = j

\* the directories of the tree that lie in no directory with an ignored name
\* and have no ignored name themselves
NotIgnored ==
    {q \in DiskPaths : IsDirOnDisk(q) /\ \A i \in 1..Len(q) : q[i] \notin IgnoreDirs}

\* C12: AddRecursive on the root adds exactly the directories reachable from
\* it without passing through a directory with an ignored name, and no entry
\* that is not a directory, whatever the names in the tree are.
C12_AddRecursiveExact ==
    mainpc = "start" => Range(paths) = NotIgnored

\* C13: an event whose handling fails, or an error of the watcher, is logged
\* only: the process and the loop go on, and lastState, timeSuccess and
\* timeFailure are as before.
C13_ErrorsOnlyLogged ==
    [][(HandlingFailed(handled') \/ errors' < errors) =>
         /\ proc' = "running" /\ looppc' = "select"
         /\ UNCHANGED trackVars]_vars

\* the steps of RunTests, for either caller
Stamping(g) == rpc[g] = "stamp" /\ rpc'[g] = "msg"
Composing(g) == rpc[g] = "msg" /\ rpc'[g] = "set"
Recording(g) == rpc[g] = "set" /\ rpc'[g] = "idle"

\* C14: a success leaves lastState = working; it logs "success after N
\* failures" exactly when lastState was failing, N being the rounded time since
\* the streak of failures began; a success from starting sets timeSuccess to
\* the time of the run.
C14_RecordSuccess ==
    [][\A g \in Goroutines : ~rerr[g] =>
         /\ Stamping(g) => (lastState = starting => timeSuccess' = now)
         /\ Composing(g) =>
              rmsg'[g] = IF lastState = failing
                         THEN <<"success after", round(Since(now, streak.failure), Second)>>
                         ELSE <<>>
         /\ Recording(g) =>
              /\ lastState' = working
              /\ (rmsg[g] /= <<>>) = (lastState = failing)
              /\ out' = IF lastState = failing THEN rmsg[g] ELSE out]_vars

\* a success is being recorded after a streak of two failures that followed a
\* success
C14_Witness ==
    /\ rpc["loop"] = "set" /\ ~rerr["loop"] /\ lastState = failing
    /\ rmsg["loop"] = <<"success after", round(Since(now, timeFailure), Second)>>
    /\ out = <<"error">> /\ streak.n["failure"] = 2 /\ timeFailure > 0

\* C15: a failure leaves lastState = failing and always logs a line; the line
\* carries the rounded time since the streak of successes began exactly when
\* lastState was working.
C15_RecordFailure ==
    [][\A g \in Goroutines : rerr[g] =>
         /\ Stamping(g) => (lastState /= failing => timeFailure' = now)
         /\ Composing(g) =>
              rmsg'[g] = IF lastState = working
                         THEN <<"error", round(Since(now, streak.success), Second)>>
                         ELSE <<"error">>
         /\ Recording(g) =>
              /\ lastState' = failing
              /\ Len(rmsg[g]) = (IF lastState = working THEN 2 ELSE 1)
              /\ out' = rmsg[g] /\ Head(out') = "error"]_vars

\* a repeated failure is being recorded: its line has no elapsed time, while
\* the line of the failure before had one
C15_Witness ==
    /\ rpc["loop"] = "set" /\ rerr["loop"] /\ lastState = failing
    /\ rmsg["loop"] = <<"error">> /\ Len(out) = 2 /\ Head(out) = "error"
    /\ streak.n["failure"] = 2 /\ timeFailure < now

\* C16: timeSuccess changes only when a success is recorded while lastState is
\* not working, timeFailure only when a failure is recorded while lastState is
\* not failing; each is the time of the first outcome of the most recent streak
\* of its kind.
C16_StampsOnTransition ==
    [][/\ timeSuccess' /= timeSuccess =>
            \E g \in Goroutines :
              Stamping(g) /\ ~rerr[g] /\ lastState /= working /\ timeSuccess' = now
       /\ timeFailure' /= timeFailure =>
            \E g \in Goroutines :
              Stamping(g) /\ rerr[g] /\ lastState /= failing /\ timeFailure' = now
       /\ timeSuccess' = streak'.success
       /\ timeFailure' = streak'.failure]_vars

\* a second success in a row is being recorded some time after the first, and
\* timeSuccess is still the time of the first
C16_Witness ==
    /\ rpc["loop"] = "msg" /\ ~rerr["loop"] /\ lastState = working
    /\ streak.n["success"] = 2 /\ timeSuccess = streak.success /\ timeSuccess < now
    /\ timeFailure /= NoTime /\ timeFailure < timeSuccess

\* the multiple of interval nearest to d, an exact half going away from zero
Nearest(d, interval) ==
    LET a == IF d >= 0 THEN d ELSE -d
        n == ((2 * a + interval) \div (2 * interval)) * interval
    IN IF d >= 0 THEN n ELSE -n

\* C17: round(d, 1s) is the whole number of seconds nearest to d, an exact
\* half rounded away from zero, for negative durations too.
C17_RoundNearest ==
    call.op = "round" => call.ret = Nearest(call.duration, call.interval)

\* C18: after a tolerated condition on one kind bit the other bits of the
\* event are still processed: a created path that is gone, or a removed path
\* the OS watcher does not know, still has its removed bit take the path off
\* the watch list and its removed or non-ignored written bit arm the loop.
C18_AllBitsProcessed ==
    [][/\ (CreatedGone(handled') /\ Remove \in handled'.ev.op) =>
            /\ modified'
            /\ handled'.ev.name \in Range(paths) => paths' /= paths
       /\ (CreatedGone(handled') /\ Write \in handled'.ev.op
             /\ ~SkipFile(Base(handled'.ev.name))) => modified'
       /\ (HandledEvent(handled') /\ handled'.rm = "nonexistent") => modified']_vars

\* the event just handled called a.Remove and nothing else that changes the list
RemoveCalled(h) ==
    /\ HandledEvent(h) /\ Remove \in h.ev.op /\ Create \notin h.ev.op

\* list without its entry at index i
Without(list, i) == SubSeq(list, 1, i - 1) \o SubSeq(list, i + 1, Len(list))

\* C19: Remove(path) deletes one entry equal to path and leaves the other
\* entries in their order; a list without path is left as it was, and a second
\* Remove(path) changes nothing further.
C19_RemoveFrame ==
    [][RemoveCalled(handled') =>
         LET path == handled'.ev.name
         IN /\ \/ paths' = paths
               \/ \E i \in 1..Len(paths) : paths[i] = path /\ paths' = Without(paths, i)
            /\ path \in Range(paths) => Len(paths') = Len(paths) - 1
            /\ path \notin Range(paths) => paths' = paths
            /\ RemovePath(paths', path) = paths']_vars

\* C20: every path in the watch list is registered with the OS watcher, and a
\* registered path is missing from the list only after a Remove of that path
\* whose unregistration failed.
C20_ListAgreesWithOS ==
    [][/\ Range(paths') \subseteq watched'
       /\ \A q \in watched' \ Range(paths') :
            (q \in Range(paths) \/ q \notin watched) =>
              /\ HandledEvent(handled') /\ handled'.ev.name = q
              /\ handled'.rm = "other"]_vars

====
